---- MODULE Spec2Model ----
(***************************************************************************)
(* tokio-prometheus-client: RuntimeCollector (src/lib.rs).                 *)
(*                                                                         *)
(* A RuntimeCollector owns `intervals`, a Mutex around the iterator of     *)
(* runtime-metrics deltas, and `metrics`, fourteen atomic counters and     *)
(* gauges.  encode() locks the iterator, pulls one interval, drops the     *)
(* guard at the end of that statement, folds the interval into `metrics`   *)
(* field by field (update) and then encodes the fourteen metrics in order. *)
(* encode() takes &self, so several threads may be inside it at once; the  *)
(* model interleaves them at the granularity of the atomic operations.     *)
(***************************************************************************)
EXTENDS Integers, Sequences, FiniteSets

\* ------------------------------------------------------------------ bounds

\* Longest pre-seeded sequence of intervals the iterator can hold.
MaxSnapshots == 2

\* Total number of encode() calls issued in a behaviour.
MaxCalls == 2

\* Context bound of the scheduler: how many times in a behaviour a thread that
\* could still run is preempted in favour of another one.  Switches away from
\* a thread that is blocked, has returned or has panicked are free.
MaxPreemptions == 1

\* Scraping threads of the host exposition server, in the order its
\* dispatcher tries them.
ThreadOrder == << "t1", "t2" >>

Threads == { ThreadOrder[i] : i \in 1..Len(ThreadOrder) }

\* ------------------------------------------------------- the metric table

\* A table in which two neighbouring encode! invocations changed places.
MetricOrderSwapped ==
    << "workers_count", "total_park_count", "total_noop_count",
       "total_steal_count", "total_steal_operations", "num_remote_schedules",
       "total_local_schedule_count", "total_overflow_count",
       "total_busy_duration", "total_polls_count", "injection_queue_depth",
       "total_local_queue_depth", "budget_forced_yield_count",
       "io_driver_ready_count" >>

\* The fourteen fields of RuntimeMetrics, in declaration order; update and
\* encode both walk them in this order.
MetricOrder ==
    << "workers_count", "total_park_count", "total_noop_count",
       "total_steal_count", "total_steal_operations", "num_remote_schedules",
       "total_local_schedule_count", "total_overflow_count",
       "total_polls_count", "total_busy_duration", "injection_queue_depth",
       "total_local_queue_depth", "budget_forced_yield_count",
       "io_driver_ready_count" >>

NumMetrics == Len(MetricOrder)

MetricNames == { MetricOrder[i] : i \in 1..NumMetrics }

\* Fields declared Gauge; update applies set! to them.
Gauges == { "workers_count", "injection_queue_depth", "total_local_queue_depth" }

\* Fields declared Counter / Counter<f64>; update applies inc_by! to them.
Counters == MetricNames \ Gauges

\* The Counter<f64> field, fed by inc_by!(.., "duration").
DurationCounters == { "total_busy_duration" }

\* EncodeMetric::metric_type of a field.
metric_type(f) == IF f \in Gauges THEN "gauge" ELSE "counter"

\* The $unit argument of each encode! invocation.
UnitOf(f) == IF f = "total_busy_duration" THEN "seconds" ELSE "none"

\* Position of each field in the table.
MetricIndex == [ f \in MetricNames |-> CHOOSE i \in 1..NumMetrics : MetricOrder[i] = f ]

IndexOf(f) == MetricIndex[f]

\* ----------------------------------------------------------- number domains

\* Width of the u64 / i64 cells in the model.  The checker's integers are 32
\* bits wide, so the 64-bit word is scaled down; every cast and every wrapping
\* addition below is taken modulo 2^WordBits exactly as the code takes it
\* modulo 2^64.
WordBits == 16

\* 2^63 of the code: the first value `as i64` turns negative.
TwoTo63 == 2 ^ (WordBits - 1)

\* 2^64 of the code: the modulus of u64 arithmetic.
TwoTo64 == 2 ^ WordBits

\* `x as u64`
ToU64(x) == x % TwoTo64

\* `x as i64`: two's complement reinterpretation of the low 64 bits.
ToI64(x) == LET m == x % TwoTo64 IN IF m >= TwoTo63 THEN m - TwoTo64 ELSE m

\* Duration::as_secs_f64.  Durations are drawn with a zero sub-second part,
\* for which the result is the whole number of seconds, exactly.
as_secs_f64(d) == d.secs

\* ------------------------------------------------------------- the intervals

\* The usize value the gauge fields of intervals 3, 4 and 5 carry: the largest
\* value `as i64` leaves alone, the smallest it turns negative, and usize::MAX.
WideGauge(k) ==
    IF k = 3 THEN TwoTo63 - 1
    ELSE IF k = 4 THEN TwoTo63
    ELSE TwoTo64 - 1

\* The tokio_metrics::RuntimeMetrics values the source draws from, by number:
\* field number i of interval k carries k * i (a Duration of k * i whole
\* seconds for the duration field), except that the gauge fields of
\* intervals 3 to 5 sit at the edges of the signed range.  Interval 0 is
\* RuntimeMetrics::default().
SnapshotTable ==
    [ k \in 0..5 |->
        [ f \in MetricNames |->
            IF f \in DurationCounters
            THEN [ secs |-> k * IndexOf(f), nanos |-> 0 ]
            ELSE IF f \in Gauges /\ k >= 3 THEN WideGauge(k)
            ELSE k * IndexOf(f) ] ]

Snapshot(k) == SnapshotTable[k]

\* What the iterator is pre-seeded with, each interval named by its number k:
\* up to MaxSnapshots intervals that alternate between Snapshot(1) and
\* Snapshot(2), starting with either, so that successive deltas differ and
\* gauges move both up and down.
Seeds ==
    { [ i \in 1..n |-> 1 + ((i + first) % 2) ] :
        n \in 0..MaxSnapshots, first \in { 0, 1 } }

\* Seeds that walk through all five intervals, starting anywhere, so that the
\* gauge fields take values on both sides of 2^63.
WideSeeds ==
    { [ i \in 1..n |-> 1 + ((i + first) % 5) ] :
        n \in 0..MaxSnapshots, first \in 0..4 }

NoThread == "none"

\* The local `interval` before the pull.
NoInterval == [ tag |-> "unset" ]

\* Option::None returned by Iterator::next.
NoneVal == [ tag |-> "None" ]

\* Option::Some(x) returned by Iterator::next.
SomeVal(x) == [ tag |-> "Some", value |-> x ]

VARIABLES
    intervals,   \* the iterator behind the Mutex: [items, cursor]; items
                 \* holds the numbers k of the intervals still to come
    mutex,       \* the Mutex itself: [holder, poisoned]
    metrics,     \* RuntimeCollector.metrics: field -> stored value
    pc,          \* per thread: where it is inside encode()
    seen,        \* per thread: the cursor value read inside next()
    interval,    \* per thread: the local `interval` (or the Option before expect)
    pos,         \* per thread: the field update / encode is about to handle
    out,         \* per thread: what the current call wrote to its encoder
    result,      \* per thread: how the current call ended
    pulled,      \* per thread: position in the source of the interval it pulled
    consumed,    \* log of the source positions next() yielded, in order
    calls,       \* number of encode() calls issued so far
    failed,      \* source positions pulled by calls that returned Err
    running,     \* scheduler: the thread that took the latest step
    preemptions  \* scheduler: preemptions so far

\* The interval at position i of the source.
ItemAt(i) == Snapshot(intervals.items[i])

vars == << intervals, mutex, metrics, pc, seen, interval, pos, out, result,
           pulled, consumed, calls, failed, running, preemptions >>

sched == << running, preemptions >>

\* RuntimeMetrics::default(): every counter and gauge starts at zero.
DefaultMetrics == [ f \in MetricNames |-> 0 ]

\* RuntimeCollector::new: the iterator obtained from the monitor, wrapped in a
\* fresh Mutex, and default metrics.  No call is in flight.
Init ==
    /\ \E items \in Seeds :
          intervals = [ items |-> items, cursor |-> 0 ]
    /\ mutex = [ holder |-> NoThread, poisoned |-> FALSE ]
    /\ metrics = DefaultMetrics
    /\ pc = [ t \in Threads |-> "idle" ]
    /\ seen = [ t \in Threads |-> 0 ]
    /\ interval = [ t \in Threads |-> NoInterval ]
    /\ pos = [ t \in Threads |-> 1 ]
    /\ out = [ t \in Threads |-> << >> ]
    /\ result = [ t \in Threads |-> [ tag |-> "none" ] ]
    /\ pulled = [ t \in Threads |-> 0 ]
    /\ consumed = << >>
    /\ calls = 0
    /\ failed = {}
    /\ running = NoThread
    /\ preemptions = 0

\* RuntimeCollector::new over a runtime whose gauge fields range over the
\* whole of usize.
WideInit ==
    /\ \E items \in WideSeeds :
          intervals = [ items |-> items, cursor |-> 0 ]
    /\ mutex = [ holder |-> NoThread, poisoned |-> FALSE ]
    /\ metrics = DefaultMetrics
    /\ pc = [ t \in Threads |-> "idle" ]
    /\ seen = [ t \in Threads |-> 0 ]
    /\ interval = [ t \in Threads |-> NoInterval ]
    /\ pos = [ t \in Threads |-> 1 ]
    /\ out = [ t \in Threads |-> << >> ]
    /\ result = [ t \in Threads |-> [ tag |-> "none" ] ]
    /\ pulled = [ t \in Threads |-> 0 ]
    /\ consumed = << >>
    /\ calls = 0
    /\ failed = {}
    /\ running = NoThread
    /\ preemptions = 0

\* ------------------------------------------------------------------ encode()

\* A lock that excludes nobody.
LockAvailableAlways(t) == TRUE

\* Mutex::lock blocks while another thread holds the guard.
LockAvailable(t) == mutex.holder = NoThread

\* Thread t is inside encode().
InFlight(t) == pc[t] \notin { "idle", "returned", "panicked" }

\* Thread r has a step it could take now.
Runnable(r) ==
    /\ r \in Threads
    /\ pc[r] \notin { "idle", "panicked" }
    /\ ~(pc[r] = "lock" /\ ~LockAvailable(r))

\* The host hands a request to the first thread of its pool that is idle.
Dispatched(t) ==
    \A i, j \in 1..Len(ThreadOrder) :
        (ThreadOrder[i] = t /\ j < i) => pc[ThreadOrder[j]] # "idle"

\* The caller of a call that returned an error drops the malformed output
\* before any other thread runs.
Discarded(t) ==
    \A u \in Threads \ { t } : ~(pc[u] = "returned" /\ result[u].tag = "err")

\* The scheduler gives the processor to t: free when t already has it or the
\* thread that has it cannot run, a preemption otherwise.
Schedule(t) ==
    /\ Discarded(t)
    /\ running' = t
    /\ IF running # t /\ Runnable(running)
       THEN /\ preemptions < MaxPreemptions
            /\ preemptions' = preemptions + 1
       ELSE UNCHANGED preemptions

\* A scrape request arrives on an idle thread, which enters encode() with a
\* fresh DescriptorEncoder.
StartEncode(t) ==
    /\ pc[t] = "idle"
    /\ Dispatched(t)
    /\ calls < MaxCalls
    /\ calls' = calls + 1
    /\ pc' = [ pc EXCEPT ![t] = "lock" ]
    /\ UNCHANGED << intervals, mutex, metrics, seen, interval, pos, out,
                    result, pulled, consumed, failed, sched >>

\* self.intervals.lock().expect(..) on a healthy mutex: the guard is taken.
Lock(t) ==
    /\ Schedule(t)
    /\ pc[t] = "lock"
    /\ LockAvailable(t)
    /\ ~mutex.poisoned
    /\ mutex' = [ mutex EXCEPT !.holder = t ]
    /\ pc' = [ pc EXCEPT ![t] = "next" ]
    /\ UNCHANGED << intervals, metrics, seen, interval, pos, out, result,
                    pulled, consumed, calls, failed >>

\* self.intervals.lock() on a poisoned mutex returns Err; expect("should be
\* able to lock intervals") panics and the guard inside the error is dropped.
LockPoisoned(t) ==
    /\ Schedule(t)
    /\ pc[t] = "lock"
    /\ LockAvailable(t)
    /\ mutex.poisoned
    /\ pc' = [ pc EXCEPT ![t] = "panicked" ]
    /\ result' = [ result EXCEPT ![t] = [ tag |-> "panic" ] ]
    /\ UNCHANGED << intervals, mutex, metrics, seen, interval, pos, out,
                    pulled, consumed, calls, failed >>

\* Iterator::next, first half: the iterator reads its own position.  The
\* iterator is not thread-safe by itself; only the guard serialises it.
NextRead(t) ==
    /\ Schedule(t)
    /\ pc[t] = "next"
    /\ seen' = [ seen EXCEPT ![t] = intervals.cursor ]
    /\ pc' = [ pc EXCEPT ![t] = "advance" ]
    /\ UNCHANGED << intervals, mutex, metrics, interval, pos, out, result,
                    pulled, consumed, calls, failed >>

\* An iterator that steps over an item each time it yields one.
AdvanceSkip(n) == n + 2

\* The position the iterator moves to after yielding item number n + 1.
Advance(n) == n + 1

\* Iterator::next, second half: yield the item after the position read and
\* advance, or yield None when nothing is left.
NextYield(t) ==
    /\ Schedule(t)
    /\ pc[t] = "advance"
    /\ pc' = [ pc EXCEPT ![t] = "expect" ]
    /\ IF seen[t] < Len(intervals.items)
       THEN /\ interval' = [ interval EXCEPT ![t] = SomeVal(ItemAt(seen[t] + 1)) ]
            /\ pulled' = [ pulled EXCEPT ![t] = seen[t] + 1 ]
            /\ intervals' = [ intervals EXCEPT !.cursor = Advance(seen[t]) ]
            /\ consumed' = Append(consumed, seen[t] + 1)
       ELSE /\ interval' = [ interval EXCEPT ![t] = NoneVal ]
            /\ UNCHANGED << pulled, intervals, consumed >>
    /\ UNCHANGED << mutex, metrics, seen, pos, out, result, calls, failed >>

\* A pull that leaks its guard (mem::forget): the mutex is never unlocked.
ExpectSomeKeepsGuard(t) ==
    /\ Schedule(t)
    /\ pc[t] = "expect"
    /\ interval[t].tag = "Some"
    /\ pc' = [ pc EXCEPT ![t] = "update" ]
    /\ UNCHANGED << intervals, mutex, metrics, seen, interval, pos, out,
                    result, pulled, consumed, calls, failed >>

\* An encode() without the call to update: the interval is pulled and dropped.
ExpectSomeSkipsUpdate(t) ==
    /\ Schedule(t)
    /\ pc[t] = "expect"
    /\ interval[t].tag = "Some"
    /\ mutex' = [ mutex EXCEPT !.holder = NoThread ]
    /\ pc' = [ pc EXCEPT ![t] = "encode" ]
    /\ UNCHANGED << intervals, metrics, seen, interval, pos, out, result,
                    pulled, consumed, calls, failed >>

\* .expect("should always be another interval") on Some: the value is bound
\* to `interval` and the temporary guard is dropped at the end of the
\* statement, before update is called.
ExpectSome(t) ==
    /\ Schedule(t)
    /\ pc[t] = "expect"
    /\ interval[t].tag = "Some"
    /\ mutex' = [ mutex EXCEPT !.holder = NoThread ]
    /\ pc' = [ pc EXCEPT ![t] = "update" ]
    /\ UNCHANGED << intervals, metrics, seen, interval, pos, out, result,
                    pulled, consumed, calls, failed >>

\* unwrap_or_default() in place of expect(): on None the call goes on with an
\* all-zero interval.
ExpectNoneDefault(t) ==
    /\ Schedule(t)
    /\ pc[t] = "expect"
    /\ interval[t].tag = "None"
    /\ interval' = [ interval EXCEPT ![t] = SomeVal(Snapshot(0)) ]
    /\ mutex' = [ mutex EXCEPT !.holder = NoThread ]
    /\ pc' = [ pc EXCEPT ![t] = "update" ]
    /\ UNCHANGED << intervals, metrics, seen, pos, out, result, pulled,
                    consumed, calls, failed >>

\* A mutex without poisoning (parking_lot style): the panic only unlocks it.
ExpectNoneUnpoisoned(t) ==
    /\ Schedule(t)
    /\ pc[t] = "expect"
    /\ interval[t].tag = "None"
    /\ mutex' = [ mutex EXCEPT !.holder = NoThread ]
    /\ pc' = [ pc EXCEPT ![t] = "panicked" ]
    /\ result' = [ result EXCEPT ![t] = [ tag |-> "panic" ] ]
    /\ UNCHANGED << intervals, metrics, seen, interval, pos, out, pulled,
                    consumed, calls, failed >>

\* An exhaustion path that clears the store before it panics.
ExpectNoneResets(t) ==
    /\ Schedule(t)
    /\ pc[t] = "expect"
    /\ interval[t].tag = "None"
    /\ metrics' = DefaultMetrics
    /\ mutex' = [ holder |-> NoThread, poisoned |-> TRUE ]
    /\ pc' = [ pc EXCEPT ![t] = "panicked" ]
    /\ result' = [ result EXCEPT ![t] = [ tag |-> "panic" ] ]
    /\ UNCHANGED << intervals, seen, interval, pos, out, pulled, consumed,
                    calls, failed >>

\* .expect(..) on None panics while the guard is alive: unwinding drops the
\* guard, which poisons the mutex.  encode() does not return.
ExpectNone(t) ==
    /\ Schedule(t)
    /\ pc[t] = "expect"
    /\ interval[t].tag = "None"
    /\ mutex' = [ holder |-> NoThread, poisoned |-> TRUE ]
    /\ pc' = [ pc EXCEPT ![t] = "panicked" ]
    /\ result' = [ result EXCEPT ![t] = [ tag |-> "panic" ] ]
    /\ UNCHANGED << intervals, metrics, seen, interval, pos, out, pulled,
                    consumed, calls, failed >>

\* ------------------------------------------------------ RuntimeMetrics::update

\* A counter that adds the delta twice.
inc_by_int_twice(v, d) == (v + 2 * ToU64(d)) % TwoTo64

\* A counter that stores the delta in place of adding it.
inc_by_int_store(v, d) == ToU64(d)

\* inc_by!(field, "int"): Counter::inc_by(data.field as u64), an atomic
\* fetch_add on the u64 cell.
inc_by_int(v, d) == (v + ToU64(d)) % TwoTo64

\* A duration counter that stores the delta in place of adding it.
inc_by_duration_store(v, d) == as_secs_f64(d)

\* inc_by!(field, "duration"): Counter<f64>::inc_by(data.field.as_secs_f64()).
inc_by_duration(v, d) == v + as_secs_f64(d)

\* A gauge that clamps at i64::MAX (i64::try_from(..).unwrap_or(i64::MAX)).
set_saturating(v, d) == IF d >= TwoTo63 THEN TwoTo63 - 1 ELSE d

\* set!(field): Gauge::set(data.field as i64), an atomic store.
set(v, d) == ToI64(d)

\* An update that leaves out the statement for the last field.
UpdatedValueForgetsLast(f, v, data) ==
    IF f = "io_driver_ready_count" THEN v
    ELSE IF f \in Gauges THEN set(v, data[f])
    ELSE IF f \in DurationCounters THEN inc_by_duration(v, data[f])
    ELSE inc_by_int(v, data[f])

\* The stored value of field f after update's statement for f ran with data.
UpdatedValue(f, v, data) ==
    IF f \in Gauges THEN set(v, data[f])
    ELSE IF f \in DurationCounters THEN inc_by_duration(v, data[f])
    ELSE inc_by_int(v, data[f])

\* One statement of update: the atomic operation on the next field.  The
\* statements of two threads' updates interleave freely.
UpdateField(t) ==
    /\ Schedule(t)
    /\ pc[t] = "update"
    /\ LET f == MetricOrder[pos[t]]
       IN metrics' = [ metrics EXCEPT ![f] = UpdatedValue(f, metrics[f], interval[t].value) ]
    /\ IF pos[t] < NumMetrics
       THEN /\ pos' = [ pos EXCEPT ![t] = pos[t] + 1 ]
            /\ UNCHANGED pc
       ELSE /\ pos' = [ pos EXCEPT ![t] = 1 ]
            /\ pc' = [ pc EXCEPT ![t] = "encode" ]
    /\ UNCHANGED << intervals, mutex, seen, interval, out, result, pulled,
                    consumed, calls, failed >>

\* ------------------------------------------------------------- encode! macro

Descriptor(f) ==
    [ kind |-> "descriptor", name |-> f, unit |-> UnitOf(f), type |-> metric_type(f) ]

Value(f, v) == [ kind |-> "value", name |-> f, value |-> v ]

\* An encode! without the `?` on encode_descriptor: when the descriptor
\* fails the value is written all the same, and the error is returned after.
EncodeMetricLateAbort(t) ==
    /\ Schedule(t)
    /\ pc[t] = "encode"
    /\ LET f == MetricOrder[pos[t]]
       IN \/ /\ out' = [ out EXCEPT ![t] = Append(out[t], Value(f, metrics[f])) ]
             /\ result' = [ result EXCEPT ![t] =
                    [ tag |-> "err", at |-> pos[t], part |-> "descriptor" ] ]
             /\ pc' = [ pc EXCEPT ![t] = "returned" ]
             /\ failed' = failed \cup { pulled[t] }
             /\ UNCHANGED pos
          \/ /\ out' = [ out EXCEPT ![t] =
                    out[t] \o << Descriptor(f), Value(f, metrics[f]) >> ]
             /\ IF pos[t] < NumMetrics
                THEN /\ pos' = [ pos EXCEPT ![t] = pos[t] + 1 ]
                     /\ UNCHANGED pc
                ELSE /\ pc' = [ pc EXCEPT ![t] = "ok" ]
                     /\ UNCHANGED pos
             /\ UNCHANGED << result, failed >>
    /\ UNCHANGED << intervals, mutex, metrics, seen, interval, pulled,
                    consumed, calls >>

\* An encode! that undoes the pull when it fails: the iterator is moved back
\* so that the interval is handed out again.
EncodeMetricRollsBack(t) ==
    /\ Schedule(t)
    /\ pc[t] = "encode"
    /\ LET f == MetricOrder[pos[t]]
       IN \/ /\ result' = [ result EXCEPT ![t] =
                    [ tag |-> "err", at |-> pos[t], part |-> "descriptor" ] ]
             /\ pc' = [ pc EXCEPT ![t] = "returned" ]
             /\ failed' = failed \cup { pulled[t] }
             /\ intervals' = [ intervals EXCEPT !.cursor = pulled[t] - 1 ]
             /\ UNCHANGED << out, pos >>
          \/ /\ out' = [ out EXCEPT ![t] =
                    out[t] \o << Descriptor(f), Value(f, metrics[f]) >> ]
             /\ IF pos[t] < NumMetrics
                THEN /\ pos' = [ pos EXCEPT ![t] = pos[t] + 1 ]
                     /\ UNCHANGED pc
                ELSE /\ pc' = [ pc EXCEPT ![t] = "ok" ]
                     /\ UNCHANGED pos
             /\ UNCHANGED << result, failed, intervals >>
    /\ UNCHANGED << mutex, metrics, seen, interval, pulled, consumed, calls >>

\* One encode! expansion.  encode_descriptor either fails (`?` returns the
\* error at once) or writes the descriptor; then the metric's encode either
\* fails (`?` again) or writes the value it loads from the atomic cell.
EncodeMetric(t) ==
    /\ Schedule(t)
    /\ pc[t] = "encode"
    /\ LET f == MetricOrder[pos[t]]
       IN \/ /\ result' = [ result EXCEPT ![t] =
                    [ tag |-> "err", at |-> pos[t], part |-> "descriptor" ] ]
             /\ pc' = [ pc EXCEPT ![t] = "returned" ]
             /\ failed' = failed \cup { pulled[t] }
             /\ UNCHANGED << out, pos >>
          \/ /\ out' = [ out EXCEPT ![t] = Append(out[t], Descriptor(f)) ]
             /\ result' = [ result EXCEPT ![t] =
                    [ tag |-> "err", at |-> pos[t], part |-> "value" ] ]
             /\ pc' = [ pc EXCEPT ![t] = "returned" ]
             /\ failed' = failed \cup { pulled[t] }
             /\ UNCHANGED pos
          \/ /\ out' = [ out EXCEPT ![t] =
                    out[t] \o << Descriptor(f), Value(f, metrics[f]) >> ]
             /\ IF pos[t] < NumMetrics
                THEN /\ pos' = [ pos EXCEPT ![t] = pos[t] + 1 ]
                     /\ UNCHANGED pc
                ELSE /\ pc' = [ pc EXCEPT ![t] = "ok" ]
                     /\ UNCHANGED pos
             /\ UNCHANGED << result, failed >>
    /\ UNCHANGED << intervals, mutex, metrics, seen, interval, pulled,
                    consumed, calls >>

\* Ok(()) after the fourteenth metric.
ReturnOk(t) ==
    /\ Schedule(t)
    /\ pc[t] = "ok"
    /\ result' = [ result EXCEPT ![t] = [ tag |-> "ok" ] ]
    /\ pc' = [ pc EXCEPT ![t] = "returned" ]
    /\ UNCHANGED << intervals, mutex, metrics, seen, interval, pos, out,
                    pulled, consumed, calls, failed >>

\* The caller takes the Result and the encoder's output; the call's frame and
\* its encoder are gone, and the thread is free to scrape again.
Finish(t) ==
    /\ Schedule(t)
    /\ pc[t] = "returned"
    /\ pc' = [ pc EXCEPT ![t] = "idle" ]
    /\ seen' = [ seen EXCEPT ![t] = 0 ]
    /\ interval' = [ interval EXCEPT ![t] = NoInterval ]
    /\ pos' = [ pos EXCEPT ![t] = 1 ]
    /\ out' = [ out EXCEPT ![t] = << >> ]
    /\ result' = [ result EXCEPT ![t] = [ tag |-> "none" ] ]
    /\ pulled' = [ pulled EXCEPT ![t] = 0 ]
    /\ UNCHANGED << intervals, mutex, metrics, consumed, calls, failed >>

\* ------------------------------------------------------------ specifications

Step(t) ==
    \/ Lock(t)
    \/ LockPoisoned(t)
    \/ NextRead(t)
    \/ NextYield(t)
    \/ ExpectSome(t)
    \/ ExpectNone(t)
    \/ UpdateField(t)
    \/ EncodeMetric(t)
    \/ ReturnOk(t)
    \/ Finish(t)

\* Scrape handlers on several threads: calls may overlap.
Next == \E t \in Threads : StartEncode(t) \/ Step(t)

Spec == Init /\ [][Next]_vars

\* A host that issues one scrape after another: a call starts only when no
\* other call is in flight.
StartEncodeSeq(t) ==
    /\ \A u \in Threads : ~InFlight(u)
    /\ StartEncode(t)

SeqNext == \E t \in Threads : StartEncodeSeq(t) \/ Step(t)

SeqSpec == Init /\ [][SeqNext]_vars

\* One scrape after another over a runtime with gauge fields of any size.
WideSpec == WideInit /\ [][SeqNext]_vars

\* The DescriptorEncoder writes into a buffer that takes everything: no
\* encode_descriptor and no encode returns Err in this step.
ReliableEncoder == \A t \in Threads : result'[t].tag # "err"

\* One encode! expansion whose two `?` both see Ok.
EncodeMetricOk(t) == EncodeMetric(t) /\ ReliableEncoder

ReliableStep(t) ==
    \/ Lock(t)
    \/ LockPoisoned(t)
    \/ NextRead(t)
    \/ NextYield(t)
    \/ ExpectSome(t)
    \/ ExpectNone(t)
    \/ UpdateField(t)
    \/ EncodeMetricOk(t)
    \/ ReturnOk(t)
    \/ Finish(t)

\* Overlapping scrapes into encoders that do not fail.
ReliableNext == \E t \in Threads : StartEncode(t) \/ ReliableStep(t)

\* The operating system's scheduler is fair to every thread: a thread that
\* can take a step of encode() is not held back forever.  Requests arrive or
\* not as the host pleases.
Fairness == \A t \in Threads : WF_vars(ReliableStep(t))

FairSpec == Init /\ [][ReliableNext]_vars /\ Fairness

\* ------------------------------------------------------------- properties

\* What a counter accumulates from one interval.
Delta(snap, f) == IF f \in DurationCounters THEN snap[f].secs ELSE snap[f]

RECURSIVE SumDeltas(_, _)
\* The sum of field f over the source positions in S.
SumDeltas(S, f) ==
    IF S = {} THEN 0
    ELSE LET i == CHOOSE x \in S : TRUE
         IN Delta(ItemAt(i), f) + SumDeltas(S \ { i }, f)

RECURSIVE SumConsumed(_, _)
\* The sum of field f over the first n entries of the pull log.
SumConsumed(n, f) ==
    IF n = 0 THEN 0
    ELSE Delta(ItemAt(consumed[n]), f) + SumConsumed(n - 1, f)

\* The values a call's output holds for field f.
ValuesOf(o, f) ==
    { o[i].value : i \in { j \in 1..Len(o) : o[j].kind = "value" /\ o[j].name = f } }

\* Thread t wrote a value for field f in this step.
Emits(t, f) ==
    /\ Len(out'[t]) > Len(out[t])
    /\ out'[t][Len(out'[t])].kind = "value"
    /\ out'[t][Len(out'[t])].name = f

Emitted(t) == out'[t][Len(out'[t])].value

\* C1: no double consumption.  Under every interleaving no position of the
\* source is yielded twice, and two calls that hold an interval at the same
\* time hold intervals from different positions.
NoDoubleConsumption ==
    /\ \A i, j \in 1..Len(consumed) : i # j => consumed[i] # consumed[j]
    /\ \A t, u \in Threads :
          (t # u /\ pulled[t] > 0 /\ pulled[u] > 0) => pulled[t] # pulled[u]

\* Two calls on different threads are in flight and each has pulled.
TwoCallsHoldIntervals ==
    \E t, u \in Threads :
        /\ t # u
        /\ InFlight(t) /\ InFlight(u)
        /\ pulled[t] > 0 /\ pulled[u] > 0

\* C2: pulls are totally ordered and skip nothing.  The k-th pull to complete
\* yielded the k-th item of the source, and what has been consumed is exactly
\* the prefix of the source up to the iterator's position.
PullsFollowSource ==
    /\ Len(consumed) = intervals.cursor
    /\ intervals.cursor <= Len(intervals.items)
    /\ \A k \in 1..Len(consumed) : consumed[k] = k
    /\ \A t \in Threads :
          pulled[t] > 0 =>
              /\ pulled[t] \in 1..Len(consumed)
              /\ interval[t] = SomeVal(ItemAt(pulled[t]))

\* Two threads pulled one after the other while the first call was still
\* running.
BackToBackPulls ==
    /\ Len(consumed) >= 2
    /\ \E t, u \in Threads :
          /\ pulled[t] = 1 /\ pulled[u] = 2
          /\ pc[t] = "update" /\ pc[u] = "update"

\* No call is inside encode(), and none has panicked.
AllReturned == \A t \in Threads : pc[t] \in { "idle", "returned" }

\* C3: concurrent additivity.  Once every scrape issued has returned, there
\* has been one pull per scrape and every counter holds the sum of its field
\* over all the intervals pulled, whatever the interleaving was.
ConcurrentAdditivity ==
    AllReturned =>
        /\ Len(consumed) = calls
        /\ \A f \in Counters : metrics[f] = SumConsumed(Len(consumed), f)

\* Two overlapping scrapes have both returned.
OverlappingScrapesReturned ==
    /\ AllReturned
    /\ calls = 2
    /\ Len(consumed) = 2
    /\ preemptions >= 1

\* C4: sequential additivity.  With scrapes issued one after another on a
\* fresh collector, the value scrape i encodes for a counter is d1 + ... + di.
SequentialAdditivity ==
    \A t \in Threads : \A f \in Counters : \A v \in ValuesOf(out[t], f) :
        v = SumDeltas(1..pulled[t], f)

\* The second scrape of a sequence has encoded all fourteen metrics.
SecondScrapeEncoded ==
    \E t \in Threads :
        /\ pc[t] = "ok"
        /\ pulled[t] = 2
        /\ ValuesOf(out[t], "total_polls_count") =
              { Delta(ItemAt(1), "total_polls_count") + Delta(ItemAt(2), "total_polls_count") }

\* C5: counter monotonicity.  No step decreases a stored counter, and the
\* value a scrape encodes for a counter is at least every value encoded for
\* that counter before.
CounterMonotonicity ==
    [][ /\ metrics' # metrics =>
              \A f \in Counters : metrics'[f] >= metrics[f]
        /\ out' # out =>
              \A t \in Threads : \A f \in Counters :
                  Emits(t, f) =>
                      \A u \in Threads : \A w \in ValuesOf(out[u], f) :
                          Emitted(t) >= w
      ]_vars

\* A scrape has encoded a counter value strictly above the one an earlier
\* scrape, whose output is still at hand, encoded.
LaterScrapeReportsMore ==
    \E t, u \in Threads : \E f \in Counters :
        /\ t # u
        /\ pc[u] = "returned" /\ result[u].tag = "ok"
        /\ \E v \in ValuesOf(out[t], f) : \E w \in ValuesOf(out[u], f) : v > w

\* C6: gauge overwrite.  The value a scrape encodes for a gauge is the field
\* of the most recently pulled interval.
GaugeIsLatestPulled ==
    [][ \A t \in Threads : \A g \in Gauges :
            Emits(t, g) => Emitted(t) = ToI64(ItemAt(intervals.cursor)[g])
      ]_vars

\* What an isolated scrape that pulled position n would encode for field f.
IsolatedValue(f, n) ==
    IF f \in Gauges THEN ToI64(ItemAt(n)[f]) ELSE SumDeltas(1..n, f)

\* C7: scrape isolation.  Every value a scrape encodes is its own interval
\* folded onto what the scrapes that pulled before it left.
ScrapeIsolation ==
    \A t \in Threads : \A f \in MetricNames : \A v \in ValuesOf(out[t], f) :
        v = IsolatedValue(f, pulled[t])

\* C8: consistent snapshot.  The fourteen values of a scrape all come from
\* one store state: some set of pulled intervals folded into every counter,
\* and one of those intervals in every gauge.
ConsistentSnapshot ==
    \A t \in Threads :
        pc[t] = "ok" =>
            \E S \in SUBSET (1..intervals.cursor) : \E last \in S :
                /\ \A f \in Counters : ValuesOf(out[t], f) = { SumDeltas(S, f) }
                /\ \A g \in Gauges : ValuesOf(out[t], g) = { ToI64(ItemAt(last)[g]) }

\* C9: exhaustion is fatal.  A call that got None from the source panics: it
\* writes nothing and never returns Ok.  No call gets past the pull, writes
\* output or returns without an interval taken from the source.
ExhaustionIsFatal ==
    \A t \in Threads :
        /\ interval[t].tag = "None" =>
              /\ pc[t] \in { "expect", "panicked" }
              /\ out[t] = << >>
              /\ result[t].tag \in { "none", "panic" }
        /\ pc[t] = "panicked" => (out[t] = << >> /\ result[t].tag = "panic")
        /\ pulled[t] = 0 =>
              /\ pc[t] \notin { "update", "encode", "ok", "returned" }
              /\ out[t] = << >>
              /\ result[t].tag \in { "none", "panic" }

\* A call has panicked on an exhausted source after an earlier scrape had
\* left values in the store.
PanickedOnExhaustion ==
    \E t \in Threads :
        /\ pc[t] = "panicked"
        /\ interval[t].tag = "None"
        /\ intervals.cursor >= 1
        /\ metrics # DefaultMetrics

\* The output of the first n metrics, complete: descriptor then value, in
\* table order.
CompleteUpTo(o, n) ==
    /\ Len(o) >= 2 * n
    /\ \A k \in 1..n :
          /\ o[2 * k - 1] = Descriptor(MetricOrder[k])
          /\ o[2 * k].kind = "value"
          /\ o[2 * k].name = MetricOrder[k]

\* C10 as stated: when writing metric i fails the call returns the error and
\* its output holds exactly the metrics before i, in order, and nothing else.
FailureLeavesOnlyEarlierMetrics ==
    \A t \in Threads :
        result[t].tag = "err" =>
            /\ pc[t] = "returned"
            /\ CompleteUpTo(out[t], result[t].at - 1)
            /\ Len(out[t]) = 2 * (result[t].at - 1)

\* C10 as amended: an encoding failure aborts at once and is returned.  When
\* writing metric i fails the call returns the error, its output holds the
\* metrics before i complete and in order, then what was already written of
\* metric i itself (its descriptor, if it was the value that failed), and
\* nothing of any later metric.
EncodingFailureAborts ==
    \A t \in Threads :
        result[t].tag = "err" =>
            LET i == result[t].at IN
            /\ pc[t] = "returned"
            /\ CompleteUpTo(out[t], i - 1)
            /\ IF result[t].part = "value"
               THEN /\ Len(out[t]) = 2 * i - 1
                    /\ out[t][2 * i - 1] = Descriptor(MetricOrder[i])
               ELSE Len(out[t]) = 2 * (i - 1)

\* A call failed on the value of a metric after writing earlier ones.
FailedMidway ==
    \E t \in Threads :
        /\ result[t].tag = "err"
        /\ result[t].part = "value"
        /\ result[t].at > 1
        /\ out[t] # << >>

\* C11: no rollback on a failed scrape.  With scrapes issued one after
\* another, the interval a failed scrape pulled stays consumed and stays
\* folded into every counter; no later scrape pulls it again, and the counter
\* a later scrape encodes is the sum over every interval pulled so far, the
\* failed scrape's included.
NoRollbackOnFailure ==
    /\ failed \subseteq 1..intervals.cursor
    /\ \A p \in failed : \E k \in 1..Len(consumed) : consumed[k] = p
    /\ \A f \in Counters : metrics[f] >= SumDeltas(failed, f)
    /\ \A t \in Threads :
          /\ pulled[t] \in failed => result[t].tag = "err"
          /\ \A f \in Counters : \A v \in ValuesOf(out[t], f) :
                LET before == 1..pulled[t]
                IN v = SumDeltas(before \cap failed, f) + SumDeltas(before \ failed, f)

\* A scrape issued after a failed one has pulled the following interval and
\* encoded all fourteen metrics.
ScrapeAfterFailedScrape ==
    \E t \in Threads :
        /\ pc[t] = "ok"
        /\ pulled[t] = 2
        /\ 1 \in failed

\* C12: fixed emission order.  Every scrape that returns Ok has written
\* exactly fourteen metrics, each as its descriptor immediately followed by
\* its value, in the order listed here, the same for every scrape.
FixedEmissionOrder ==
    LET order == << "workers_count", "total_park_count", "total_noop_count",
                    "total_steal_count", "total_steal_operations",
                    "num_remote_schedules", "total_local_schedule_count",
                    "total_overflow_count", "total_polls_count",
                    "total_busy_duration", "injection_queue_depth",
                    "total_local_queue_depth", "budget_forced_yield_count",
                    "io_driver_ready_count" >>
    IN \A t \in Threads :
           (pc[t] = "ok" \/ result[t].tag = "ok") =>
               /\ Len(out[t]) = 2 * Len(order)
               /\ \A k \in 1..Len(order) :
                     /\ out[t][2 * k - 1].kind = "descriptor"
                     /\ out[t][2 * k - 1].name = order[k]
                     /\ out[t][2 * k].kind = "value"
                     /\ out[t][2 * k].name = order[k]

\* Two scrapes have returned Ok and the output of both is at hand.
TwoScrapesReturnedOk ==
    \E t, u \in Threads :
        /\ t # u
        /\ pc[t] = "returned" /\ result[t].tag = "ok"
        /\ pc[u] = "returned" /\ result[u].tag = "ok"

\* C13: the lock is held until update has completed.  A scrape that is inside
\* update holds the guard of `intervals`, and so no two scrapes are inside
\* update at the same time.
UpdateUnderLock ==
    /\ \A t \in Threads : pc[t] = "update" => mutex.holder = t
    /\ \A t, u \in Threads : (pc[t] = "update" /\ pc[u] = "update") => t = u

\* Calls that were started and have not pulled: before the pull, or panicked.
CallsWithoutPull == { t \in Threads : pc[t] # "idle" /\ pulled[t] = 0 }

\* The step folds field number pos[t] of the interval t pulled into the store
\* and changes nothing else in it.
FoldsOwnField(t) ==
    LET f == MetricOrder[pos[t]]
        d == ItemAt(pulled[t])
    IN metrics' = [ metrics EXCEPT ![f] =
                      IF f \in Gauges THEN ToI64(d[f]) ELSE metrics[f] + Delta(d, f) ]

\* C14: one pull and one fold per scrape, before any output.  Every call that
\* got past the pull accounts for exactly one entry of the pull log; output
\* is written only by a call that has pulled and has left update; update is
\* entered once, straight after the pull, folds the fields of the pulled
\* interval one by one from the first to the last, and only then is the
\* first descriptor written.
OnePullOneFoldBeforeOutput ==
    /\ [](/\ calls = Len(consumed) + Cardinality(CallsWithoutPull)
          /\ \A t \in Threads :
                /\ out[t] # << >> =>
                      pulled[t] > 0 /\ pc[t] \in { "encode", "ok", "returned" }
                /\ pc[t] \in { "update", "encode", "ok" } => pulled[t] > 0)
    /\ [][
         /\ \A t \in Threads :
               /\ (pulled'[t] # pulled[t] /\ pulled'[t] > 0) =>
                     pulled[t] = 0 /\ pc[t] = "advance"
               /\ (pc'[t] = "update" /\ pc[t] # "update") =>
                     pc[t] = "expect" /\ pos'[t] = 1 /\ out[t] = << >>
               /\ (pc[t] = "update" /\ pos'[t] # pos[t]) =>
                     IF pos[t] < NumMetrics
                     THEN pc'[t] = "update" /\ pos'[t] = pos[t] + 1
                     ELSE pc'[t] = "encode"
               /\ (pc'[t] = "encode" /\ pc[t] # "encode") =>
                     pc[t] = "update" /\ pos[t] = NumMetrics /\ out'[t] = << >>
         /\ metrics' # metrics =>
               \E u \in Threads :
                   /\ pc[u] = "update"
                   /\ pos'[u] # pos[u]
                   /\ FoldsOwnField(u)
       ]_vars

\* The second scrape has finished its update and has written nothing yet.
FoldedBeforeFirstDescriptor ==
    \E t \in Threads :
        /\ pc[t] = "encode"
        /\ out[t] = << >>
        /\ pulled[t] = 2
        /\ \A f \in Counters : metrics[f] >= Delta(ItemAt(2), f)

\* C15: scrapes do not deadlock or hang.  Only a call between lock() and the
\* end of the pull statement holds the guard, so a call that has ended has
\* released it; and under fair scheduling, with an encoder that does not
\* fail, every call that was started ends, so that in the end no call is in
\* flight: each has returned Ok, or has panicked, which happens only once
\* the source is exhausted.
ScrapesTerminate ==
    /\ [](\A t \in Threads :
             /\ mutex.holder = t => pc[t] \in { "next", "advance", "expect" }
             /\ pc[t] = "returned" => result[t].tag = "ok"
             /\ pc[t] = "panicked" => intervals.cursor = Len(intervals.items))
    /\ <>[](\A t \in Threads : ~InFlight(t))

\* A call waits at lock() while another call holds the guard.
BlockedOnLock ==
    \E t, u \in Threads :
        /\ t # u
        /\ pc[t] = "lock"
        /\ mutex.holder = u

\* C16: gauge pass-through without clamping.  Once the latest scrape has run
\* set! for a gauge, the gauge holds the interval's field itself when the
\* field is below 2^63, and the field minus 2^64 (a negative number) when it
\* is 2^63 or more; that is also the value the scrape encodes.
GaugePassThrough ==
    \A t \in Threads : \A g \in Gauges :
        LET x == ItemAt(pulled[t])[g]
            stored == IF x < TwoTo63 THEN x ELSE x - TwoTo64
        IN /\ ( /\ pulled[t] > 0
                /\ pulled[t] = intervals.cursor
                /\ \/ pc[t] = "update" /\ pos[t] > IndexOf(g)
                   \/ pc[t] \in { "encode", "ok", "returned" } )
              => metrics[g] = stored
           /\ \A v \in ValuesOf(out[t], g) : v = stored

\* A scrape has encoded a gauge whose field was 2^63 or more, as a negative
\* number.
GaugeWrapped ==
    \E t \in Threads : \E g \in Gauges :
        /\ pc[t] = "ok"
        /\ ItemAt(pulled[t])[g] >= TwoTo63
        /\ \E v \in ValuesOf(out[t], g) : v < 0

\* C17: a call that hits exhaustion leaves the store unchanged.  A call that
\* got None has pulled nothing and never reaches update, and no step of a
\* call that has not pulled an interval, the panic included, changes any of
\* the fourteen stored values.
ExhaustionKeepsStore ==
    /\ [](\A t \in Threads :
             interval[t].tag = "None" =>
                 pulled[t] = 0 /\ pc[t] \in { "expect", "panicked" })
    /\ [][ \A t \in Threads :
              (pulled[t] = 0 /\ pulled'[t] = 0 /\ pc'[t] # pc[t]) =>
                  \A f \in MetricNames : metrics'[f] = metrics[f]
          ]_vars

\* A call has panicked on the exhausted source and the store still holds
\* what the scrapes before it folded.
StoreKeptAfterExhaustion ==
    \E t \in Threads :
        /\ pc[t] = "panicked"
        /\ interval[t].tag = "None"
        /\ Len(consumed) >= 1
        /\ \A f \in Counters : metrics[f] > 0

\* C18: exhaustion is sticky through lock poisoning.  The mutex is poisoned
\* exactly when some call has panicked on an exhausted source; it is then
\* free and stays poisoned; and from then on a call at lock() can only panic
\* there, leaving the source, the pull log and the store as they are and
\* writing nothing.
ExhaustionIsSticky ==
    /\ [](/\ mutex.poisoned <=>
                \E t \in Threads : pc[t] = "panicked" /\ interval[t].tag = "None"
          /\ mutex.poisoned => mutex.holder = NoThread
          /\ \A t \in Threads :
                (pc[t] = "panicked" /\ interval[t].tag # "None") =>
                    /\ mutex.poisoned
                    /\ interval[t] = NoInterval
                    /\ pulled[t] = 0
                    /\ out[t] = << >>)
    /\ [][ mutex.poisoned =>
              /\ mutex' = mutex
              /\ \A t \in Threads :
                    (pc[t] \in { "idle", "lock" } /\ pc'[t] # pc[t]) =>
                        /\ pc'[t] = IF pc[t] = "idle" THEN "lock" ELSE "panicked"
                        /\ intervals' = intervals
                        /\ consumed' = consumed
                        /\ metrics' = metrics
                        /\ out'[t] = << >>
          ]_vars

\* One call has panicked on the exhausted source, and a call started after
\* it has panicked at lock().
PoisonedLockRefusedCall ==
    \E t, u \in Threads :
        /\ pc[t] = "panicked" /\ interval[t].tag = "None"
        /\ pc[u] = "panicked" /\ interval[u] = NoInterval
        /\ mutex.poisoned

\* C19: bound on what a concurrent scrape reports.  Under every interleaving
\* the value a scrape encodes for an integer counter is the sum of the
\* counter's field over some set of the intervals pulled so far that contains
\* the scrape's own interval; so it is at least the scrape's own delta and at
\* most the sum over everything pulled by the time it reads.
ReportedCounterIsSubsetSum ==
    [][ out' # out =>
          \A t \in Threads : \A f \in Counters \ DurationCounters :
              Emits(t, f) =>
                  /\ \E S \in SUBSET (1..intervals.cursor) :
                        /\ pulled[t] \in S
                        /\ Emitted(t) = SumDeltas(S, f)
                  /\ Emitted(t) >= Delta(ItemAt(pulled[t]), f)
                  /\ Emitted(t) <= SumDeltas(1..intervals.cursor, f)
      ]_vars

\* The scrape that pulled second has encoded a counter that holds its own
\* delta only: the scrape that pulled first has not folded that field yet.
ReportsOwnDeltaOnly ==
    \E t, u \in Threads :
        /\ pulled[t] = 2
        /\ pulled[u] = 1
        /\ pc[u] = "update"
        /\ ValuesOf(out[t], "total_park_count") =
              { Delta(ItemAt(2), "total_park_count") }

====
